---------------------------- MODULE Spec2Model ----------------------------
(***************************************************************************)
(* Model of the voice booking engine of Rafiki:                            *)
(*   src/frontend /src/services/voiceBookingService.js                     *)
(* (class VoiceBookingService and its module-level singleton), as it is    *)
(* driven by the VoiceInterface component (src/unnamed/part_004).          *)
(*                                                                         *)
(* Utterances are TLA+ strings, i.e. sequences of characters; the regular  *)
(* expressions of parseUserSpeech are modelled character by character.     *)
(***************************************************************************)
EXTENDS Integers, Sequences, FiniteSets, TLC

(***************************************************************************)
(* Strings and the JavaScript string / RegExp primitives the code uses.    *)
(***************************************************************************)
NULL == "<null>"

Char(s, i) == SubSeq(s, i, i)

UpperAlpha == "ABCDEFGHIJKLMNOPQRSTUVWXYZ"
LowerAlpha == "abcdefghijklmnopqrstuvwxyz"
Digits     == "0123456789"

CharsOf(s) == { Char(s, i) : i \in 1..Len(s) }

\* \d
DigitChars == CharsOf(Digits)
\* \w
WordChars  == CharsOf(UpperAlpha) \cup CharsOf(LowerAlpha) \cup DigitChars \cup {"_"}
\* \s (the utterances of the model hold no other white space than the blank)
SpaceChars == {" "}
\* [\w.-]
EmailChars == WordChars \cup {".", "-"}

LowerChar(c) ==
    IF c \in CharsOf(UpperAlpha)
    THEN Char(LowerAlpha, CHOOSE i \in 1..26 : Char(UpperAlpha, i) = c)
    ELSE c

RECURSIVE toLowerCase(_)
toLowerCase(s) ==
    IF Len(s) = 0 THEN ""
    ELSE LowerChar(Char(s, 1)) \o toLowerCase(SubSeq(s, 2, Len(s)))

\* The literal lit stands in s at i
StartsAt(s, i, lit) ==
    /\ i >= 1
    /\ i + Len(lit) - 1 <= Len(s)
    /\ SubSeq(s, i, i + Len(lit) - 1) = lit

\* String.prototype.includes
includes(s, kw) == \E i \in 1..(Len(s) - Len(kw) + 1) : StartsAt(s, i, kw)

\* The last index j >= i-1 such that s[i..j] lies in the class C: the end of
\* a greedy C* started at i.
RunEnd(s, i, C) ==
    LET ok(j) == \A k \in i..j : Char(s, k) \in C
    IN  IF i > Len(s) THEN i - 1
        ELSE CHOOSE j \in (i - 1)..Len(s) :
                /\ ok(j)
                /\ (j = Len(s) \/ Char(s, j + 1) \notin C)

Min(S) == CHOOSE x \in S : \A y \in S : x <= y
Max(S) == CHOOSE x \in S : \A y \in S : x >= y

\* String.prototype.trim
RECURSIVE trim(_)
trim(s) ==
    IF Len(s) = 0 THEN s
    ELSE IF Char(s, 1) \in SpaceChars THEN trim(SubSeq(s, 2, Len(s)))
    ELSE IF Char(s, Len(s)) \in SpaceChars THEN trim(SubSeq(s, 1, Len(s) - 1))
    ELSE s

\* String.prototype.split(/\s+/): the pieces between the white space runs
\* (an empty piece where the string starts or ends with white space).
RECURSIVE splitWs(_)
splitWs(s) ==
    LET sp == { i \in 1..Len(s) : Char(s, i) \in SpaceChars }
    IN  IF sp = {} THEN << s >>
        ELSE LET a == Min(sp)
                 b == RunEnd(s, a, SpaceChars)
             IN  << SubSeq(s, 1, a - 1) >> \o splitWs(SubSeq(s, b + 1, Len(s)))

(***************************************************************************)
(* JavaScript objects with string keys: functions on a finite set of keys. *)
(***************************************************************************)
EmptyObj == [k \in {} |-> ""]

\* !obj[k] is false: the key is there and its value is not the empty string
Truthy(obj, k) == k \in DOMAIN obj /\ obj[k] # ""

\* { ...a, ...b }
Spread(a, b) ==
    [k \in DOMAIN a \cup DOMAIN b |-> IF k \in DOMAIN b THEN b[k] ELSE a[k]]

Put(obj, k, v) == Spread(obj, [x \in {k} |-> v])


(***************************************************************************)
(* The service catalog.                                                    *)
(***************************************************************************)
FieldNames ==
    {"first_name", "last_name", "id_number", "phone", "email", "date_of_birth"}

\* SERVICE_INFO[s].fields
SERVICE_INFO ==
    [ passport        |-> << "first_name", "last_name", "id_number", "phone",
                             "email", "date_of_birth" >>,
      national_id     |-> << "first_name", "last_name", "date_of_birth", "phone" >>,
      driving_license |-> << "first_name", "last_name", "id_number", "phone", "email" >>,
      good_conduct    |-> << "first_name", "last_name", "id_number", "phone", "email" >> ]

Services == DOMAIN SERVICE_INFO

Range(seq) == { seq[i] : i \in 1..Len(seq) }

RequiredFields(s) == Range(SERVICE_INFO[s])

(***************************************************************************)
(* parseUserSpeech: the service hint, the intent and the extracted data.   *)
(***************************************************************************)
\* The chain with the national_id test put before the passport test
DetectService_NationalFirst(lower) ==
    IF includes(lower, "national id") \/ includes(lower, "kitambulisho")
            \/ includes(lower, "id card")
        THEN "national_id"
    ELSE IF includes(lower, "passport") \/ includes(lower, "pasipoti")
        THEN "passport"
    ELSE IF includes(lower, "driving") \/ includes(lower, "license")
            \/ includes(lower, "leseni")
        THEN "driving_license"
    ELSE IF includes(lower, "good conduct") \/ includes(lower, "police")
            \/ includes(lower, "mwenendo")
        THEN "good_conduct"
    ELSE NULL

\* The chain with one more branch, for a service that has a portal page
\* (ECITIZEN_URLS) and no entry in SERVICE_INFO
DetectService_BirthCertificate(lower) ==
    IF includes(lower, "passport") \/ includes(lower, "pasipoti")
        THEN "passport"
    ELSE IF includes(lower, "national id") \/ includes(lower, "kitambulisho")
            \/ includes(lower, "id card")
        THEN "national_id"
    ELSE IF includes(lower, "driving") \/ includes(lower, "license")
            \/ includes(lower, "leseni")
        THEN "driving_license"
    ELSE IF includes(lower, "good conduct") \/ includes(lower, "police")
            \/ includes(lower, "mwenendo")
        THEN "good_conduct"
    ELSE IF includes(lower, "birth")
        THEN "birth_certificate"
    ELSE NULL

\* if / else if chain on lower.includes(...), lines 75-83
DetectService(lower) ==
    IF includes(lower, "passport") \/ includes(lower, "pasipoti")
        THEN "passport"
    ELSE IF includes(lower, "national id") \/ includes(lower, "kitambulisho")
            \/ includes(lower, "id card")
        THEN "national_id"
    ELSE IF includes(lower, "driving") \/ includes(lower, "license")
            \/ includes(lower, "leseni")
        THEN "driving_license"
    ELSE IF includes(lower, "good conduct") \/ includes(lower, "police")
            \/ includes(lower, "mwenendo")
        THEN "good_conduct"
    ELSE NULL

\* The chain with its three tests in the reverse order
DetectIntent_RequirementsFirst(lower) ==
    IF includes(lower, "require") \/ includes(lower, "need")
            \/ includes(lower, "hitaji")
        THEN "requirements"
    ELSE IF includes(lower, "check") \/ includes(lower, "status")
            \/ includes(lower, "hali")
        THEN "check_status"
    ELSE IF includes(lower, "book") \/ includes(lower, "apply")
            \/ includes(lower, "weka") \/ includes(lower, "omba")
        THEN "book"
    ELSE NULL

\* if / else if chain on lower.includes(...), lines 86-92
DetectIntent(lower) ==
    IF includes(lower, "book") \/ includes(lower, "apply")
            \/ includes(lower, "weka") \/ includes(lower, "omba")
        THEN "book"
    ELSE IF includes(lower, "check") \/ includes(lower, "status")
            \/ includes(lower, "hali")
        THEN "check_status"
    ELSE IF includes(lower, "require") \/ includes(lower, "need")
            \/ includes(lower, "hitaji")
        THEN "requirements"
    ELSE NULL

\* The literal heads of namePatterns, in the order of the array; each is
\* followed by the group (\w+\s*\w*) and matched with the i flag.
namePatterns == << "my name is ", "i am ", "jina langu ni ", "called " >>

\* The places where /<head>(\w+\s*\w*)/i matches in text: the head, then at
\* least one word character.
NameMatchStarts(text, head) ==
    { i \in 1..(Len(text) - Len(head)) :
        /\ toLowerCase(SubSeq(text, i, i + Len(head) - 1)) = head
        /\ Char(text, i + Len(head)) \in WordChars }

\* match[1] of the leftmost match: \w+ then \s* then \w*, each greedy
NameGroup(text, head) ==
    LET a  == Min(NameMatchStarts(text, head)) + Len(head)
        e1 == RunEnd(text, a, WordChars)
        e2 == RunEnd(text, e1 + 1, SpaceChars)
        e3 == RunEnd(text, e2 + 1, WordChars)
    IN  SubSeq(text, a, e3)

\* lines 102-110: the first pattern of the array that matches decides
ExtractName(text) ==
    LET hit == { n \in 1..Len(namePatterns) :
                    NameMatchStarts(text, namePatterns[n]) # {} }
    IN  IF hit = {} THEN EmptyObj
        ELSE LET names == splitWs(trim(NameGroup(text, namePatterns[Min(hit)])))
                 first == [k \in {"first_name"} |-> names[1]]
             IN  IF Len(names) >= 2 /\ names[2] # ""
                 THEN Put(first, "last_name", names[2])
                 ELSE first

\* \b between the characters i and i+1 of s
WordBoundary(s, i) ==
    LET w(k) == k >= 1 /\ k <= Len(s) /\ Char(s, k) \in WordChars
    IN  w(i) # w(i + 1)

\* /\b(\d{8})\b/, lines 113-116
IdDigits == 8

\* The match of /(\d{8})/, without the two \b
IdMatchStarts_NoBoundary(text) ==
    { i \in 1..(Len(text) - IdDigits + 1) :
        \A k \in i..(i + IdDigits - 1) : Char(text, k) \in DigitChars }

IdMatchStarts(text) ==
    { i \in 1..(Len(text) - IdDigits + 1) :
        /\ \A k \in i..(i + IdDigits - 1) : Char(text, k) \in DigitChars
        /\ WordBoundary(text, i - 1)
        /\ WordBoundary(text, i + IdDigits - 1) }

ExtractId(text) ==
    LET m == IdMatchStarts(text)
    IN  IF m = {} THEN EmptyObj
        ELSE [k \in {"id_number"} |-> SubSeq(text, Min(m), Min(m) + IdDigits - 1)]

\* /(?:0|\+?254)?([17]\d{8})/, lines 119-122
PhoneTail == 8

\* ([17]\d{8}) at g
PhoneGroupAt(text, g) ==
    /\ g >= 1
    /\ g + PhoneTail <= Len(text)
    /\ Char(text, g) \in {"1", "7"}
    /\ \A k \in (g + 1)..(g + PhoneTail) : Char(text, k) \in DigitChars

\* The starts of the group that the optional prefix allows for a match that
\* begins at i, in the order the regular expression tries them.
PhoneGroupStarts(text, i) ==
    LET at(lit) == StartsAt(text, i, lit)
    IN  (IF at("0") THEN << i + 1 >> ELSE << >>)
        \o (IF at("+254") THEN << i + 4 >> ELSE << >>)
        \o (IF at("254") THEN << i + 3 >> ELSE << >>)
        \o << i >>

\* The start of group 1 for a match that begins at i, 0 when there is none
PhoneGroupFrom(text, i) ==
    LET c  == PhoneGroupStarts(text, i)
        ok == { n \in 1..Len(c) : PhoneGroupAt(text, c[n]) }
    IN  IF ok = {} THEN 0 ELSE c[Min(ok)]

\* The phone taken as the whole match, prefix and all
ExtractPhone_WholeMatch(text) ==
    LET m == { i \in 1..Len(text) : PhoneGroupFrom(text, i) # 0 }
    IN  IF m = {} THEN EmptyObj
        ELSE LET g == PhoneGroupFrom(text, Min(m))
             IN  [k \in {"phone"} |-> SubSeq(text, Min(m), g + PhoneTail)]

ExtractPhone(text) ==
    LET m == { i \in 1..Len(text) : PhoneGroupFrom(text, i) # 0 }
    IN  IF m = {} THEN EmptyObj
        ELSE LET g == PhoneGroupFrom(text, Min(m))
             IN  [k \in {"phone"} |-> "0" \o SubSeq(text, g, g + PhoneTail)]

\* /[\w.-]+@[\w.-]+\.\w+/ for a match that begins at i: the end of the
\* match, 0 when there is none.  The local part is the run of [\w.-] from i
\* and must end at an @; the domain is taken greedily and given back up to
\* the last dot that a word character follows.
EmailEndFrom(text, i) ==
    LET at == RunEnd(text, i, EmailChars) + 1
        r  == RunEnd(text, at + 1, EmailChars)
        ps == { p \in (at + 2)..(r - 1) :
                    Char(text, p) = "." /\ Char(text, p + 1) \in WordChars }
    IN  IF at > i /\ at <= Len(text) /\ Char(text, at) = "@" /\ ps # {}
        THEN RunEnd(text, Max(ps) + 1, WordChars)
        ELSE 0

\* lines 125-128
ExtractEmail(text) ==
    LET m == { i \in 1..Len(text) : EmailEndFrom(text, i) # 0 }
    IN  IF m = {} THEN EmptyObj
        ELSE [k \in {"email"} |-> SubSeq(text, Min(m), EmailEndFrom(text, Min(m)))]

\* parseUserSpeech with a date of birth taken from "born <date>"
parseUserSpeech_ExtractsBirthDate(text) ==
    LET lower == toLowerCase(text)
        born  == { i \in 1..Len(lower) : StartsAt(lower, i, "born ") }
        data  == Spread(Spread(Spread(ExtractName(text), ExtractId(text)),
                               ExtractPhone(text)), ExtractEmail(text))
    IN  [ intent  |-> DetectIntent(lower),
          service |-> DetectService(lower),
          data    |-> IF born = {} THEN data
                      ELSE Put(data, "date_of_birth",
                               SubSeq(text, Min(born) + 5, Len(text))) ]

\* parseUserSpeech with the service looked for only once an intent is found
parseUserSpeech_ServiceNeedsIntent(text) ==
    LET lower == toLowerCase(text)
    IN  [ intent  |-> DetectIntent(lower),
          service |-> IF DetectIntent(lower) = NULL THEN NULL
                      ELSE DetectService(lower),
          data    |-> Spread(Spread(Spread(ExtractName(text), ExtractId(text)),
                                    ExtractPhone(text)), ExtractEmail(text)) ]

parseUserSpeech(text) ==
    LET lower == toLowerCase(text)
    IN  [ intent  |-> DetectIntent(lower),
          service |-> DetectService(lower),
          data    |-> Spread(Spread(Spread(ExtractName(text), ExtractId(text)),
                                    ExtractPhone(text)), ExtractEmail(text)) ]


(***************************************************************************)
(* The inputs of the model.                                                *)
(***************************************************************************)
\* The conversations whose utterances reach the engine, numbered from 1
NumSessions == 2

Sessions == 1..NumSessions

\* What a caller may pass to startBooking: the catalog's services and a
\* service that has a portal page but no catalog entry
ServiceArgs == Services \cup {"birth_certificate"}

LanguageArgs == {"en", "sw", "fr"}

UttFull ==
    "My name is John Doe, ID 12345678, phone 0712345678, email john@example.com, born 1990-01-01"
UttJohn == "I am John Doe, my ID is 12345678"
UttBookJohn == "Book good conduct. I am John Doe, my ID is 12345678"
UttCancel == "cancel"
UttIdOrPassport == "I need id or passport"
UttNeedToBook == "I need to book a passport"
UttCheckNeed == "Check what I need for a passport"

Utterances ==
    { "Book passport",
      "Apply for national ID",
      "I want to apply for a driving license",
      "Omba cheti cha mwenendo",
      UttIdOrPassport,
      "check status of good conduct",
      UttNeedToBook,
      UttCheckNeed,
      "Apply for a birth certificate",
      UttJohn,
      UttBookJohn,
      UttFull,
      UttCancel,
      "my name is Mary",
      "my id number is 87654321",
      "call me on +254712345678",
      "email john@example.com" }

\* The texts parseUserSpeech is called on when it is examined on its own:
\* an action word or none, then two service words or none
IntentWords == { "", "Book ", "Check ", "I need " }

ServiceWords ==
    { "", "passport", "pasipoti", "national ID", "kitambulisho", "id card",
      "driving", "license", "leseni", "good conduct", "police", "mwenendo" }

ParseTexts ==
    { i \o a \o " " \o b : i \in IntentWords, a \in ServiceWords, b \in ServiceWords }
        \cup { UttIdOrPassport }

\* The texts that hold a phone number: what precedes it, the prefix it is
\* written with, the nine digits of the subscriber, what follows it
PhoneLeads == { "", "call me on ", "my phone is " }
PhonePrefixes == { "", "0", "+254", "254" }
Subscribers == { "712345678", "112345678", "725471234", "101234567", "700000000" }
PhoneEnds == { "", " please", "9" }

PhoneTexts ==
    { l \o p \o n \o e :
        l \in PhoneLeads, p \in PhonePrefixes, n \in Subscribers, e \in PhoneEnds }
        \cup Utterances

\* The texts that hold a run of seven, eight or nine digits: what precedes
\* the run, the run, what follows it
IdLeads == { "", "ID ", "id", "no_", "#" }
IdRuns == { "1234567", "12345678", "123456789" }
IdEnds == { "", " ok", "th", ".", "-", " 87654321" }

IdTexts == { l \o r \o e : l \in IdLeads, r \in IdRuns, e \in IdEnds }

\* What parseUserSpeech returns before it has returned anything
NoParse == [ intent |-> NULL, service |-> NULL, data |-> EmptyObj ]

\* parseUserSpeech is a function of the utterance alone: what it returns for
\* each utterance of the model
Parsed == [ u \in Utterances |-> parseUserSpeech(u) ]

(***************************************************************************)
(* The engine: the fields of the one VoiceBookingService object, and its   *)
(* methods as operators from the object (self) to the object after the     *)
(* call (self) and the value returned (ret).                               *)
(***************************************************************************)
\* What a returned object holds when the code leaves a key out
NoMessage == [ template |-> NULL, lang |-> NULL, service |-> NULL,
               field |-> NULL, echoed |-> EmptyObj ]

NoResult ==
    [ returned |-> FALSE, success |-> FALSE, complete |-> FALSE,
      service |-> NULL, nextField |-> NULL, data |-> EmptyObj,
      collectedData |-> EmptyObj, step |-> 0, message |-> NoMessage ]

\* t(en, sw) of a message template, with what the template interpolates
Message(self, template, service, field, echoed) ==
    [ template |-> template, lang |-> self.language, service |-> service,
      field |-> field, echoed |-> echoed ]

Returned(success, message) ==
    [ NoResult EXCEPT !.returned = TRUE, !.success = success,
                      !.message = message ]

\* constructor, lines 46-53; lastBookingData is not set before a completion
NewService ==
    [ collectedData    |-> EmptyObj,
      currentService   |-> NULL,
      bookingStep      |-> 0,
      language         |-> "en",
      lastBookingData  |-> [ set |-> FALSE, data |-> EmptyObj ] ]

\* setLanguage that stores what it is given
setLanguage_StoresAny(self, lang) ==
    [ self EXCEPT !.language = lang ]

\* setLanguage, lines 55-57
setLanguage(self, lang) ==
    [ self EXCEPT !.language = IF lang = "sw" THEN "sw" ELSE "en" ]

\* startBooking that keeps what was collected for the service before
startBooking_KeepsData(self, serviceType) ==
    IF serviceType \notin DOMAIN SERVICE_INFO
    THEN [ self |-> self,
           ret  |-> Returned(FALSE,
                        Message(self, "unknown_service", NULL, NULL, EmptyObj)) ]
    ELSE [ self |-> [ self EXCEPT !.currentService = serviceType,
                                  !.bookingStep = 0 ],
           ret  |-> [ Returned(TRUE,
                        Message(self, "starting", serviceType, NULL, EmptyObj))
                      EXCEPT !.service = serviceType, !.nextField = "name" ] ]

\* startBooking, lines 136-163
startBooking(self, serviceType) ==
    IF serviceType \notin DOMAIN SERVICE_INFO
    THEN [ self |-> self,
           ret  |-> Returned(FALSE,
                        Message(self, "unknown_service", NULL, NULL, EmptyObj)) ]
    ELSE [ self |-> [ self EXCEPT !.currentService = serviceType,
                                  !.collectedData = EmptyObj,
                                  !.bookingStep = 0 ],
           ret  |-> [ Returned(TRUE,
                        Message(self, "starting", serviceType, NULL, EmptyObj))
                      EXCEPT !.service = serviceType, !.nextField = "name" ] ]

\* completeBooking that returns the record and forgets the reset of lines
\* 275-277
completeBooking_NoReset(self) ==
    [ self |-> [ self EXCEPT !.lastBookingData =
                                [ set |-> TRUE, data |-> self.collectedData ] ],
      ret  |-> [ Returned(TRUE, Message(self, "summary", self.currentService,
                                        NULL, self.collectedData))
                 EXCEPT !.complete = TRUE, !.data = self.collectedData ] ]

\* completeBooking without line 271
completeBooking_ForgetsLast(self) ==
    [ self |-> [ self EXCEPT !.collectedData = EmptyObj,
                             !.currentService = NULL,
                             !.bookingStep = 0 ],
      ret  |-> [ Returned(TRUE, Message(self, "summary", self.currentService,
                                        NULL, self.collectedData))
                 EXCEPT !.complete = TRUE, !.data = self.collectedData ] ]

\* completeBooking, lines 245-287 (the page it opens is outside the engine)
completeBooking(self) ==
    LET data          == self.collectedData
        completedData == self.collectedData
    IN  [ self |-> [ self EXCEPT !.lastBookingData = [ set |-> TRUE, data |-> data ],
                                 !.collectedData = EmptyObj,
                                 !.currentService = NULL,
                                 !.bookingStep = 0 ],
          ret  |-> [ Returned(TRUE,
                        Message(self, "summary", self.currentService, NULL, data))
                     EXCEPT !.complete = TRUE, !.data = completedData ] ]

\* line 202: this.collectedData = { ...this.collectedData, ...parsed.data }
MergeExtracted(collected, extracted) == Spread(collected, extracted)

\* The missing fields with email taken as optional, as the summary of
\* completeBooking takes it
MissingFields_EmailOptional(fields, collected) ==
    LET isMissing(f) == f # "email" /\ ~Truthy(collected, f)
    IN  SelectSeq(fields, isMissing)

\* The missing fields in the reverse of the order of the service's fields
MissingFields_LastFirst(fields, collected) ==
    LET isMissing(f) == ~Truthy(collected, f)
        m == SelectSeq(fields, isMissing)
    IN  [ i \in 1..Len(m) |-> m[Len(m) + 1 - i] ]

\* lines 205-209: the fields of the service that collected holds no value for
MissingFields(fields, collected) ==
    LET isMissing(f) == ~Truthy(collected, f)
    IN  SelectSeq(fields, isMissing)

\* lines 227-230: the entries of collected that hold a value
CollectedEntries(collected) ==
    [ k \in { x \in DOMAIN collected : collected[x] # "" } |-> collected[k] ]

\* The branches that start nothing, with the extraction merged all the same
processInputIdle_MergesExtracted(self, text) ==
    LET parsed == Parsed[text]
        merged == [ self EXCEPT
                      !.collectedData = MergeExtracted(@, parsed.data) ]
    IN  IF parsed.service # NULL /\ parsed.intent = "book"
            THEN startBooking(self, parsed.service)
        ELSE IF parsed.intent = "requirements" /\ parsed.service # NULL
            THEN [ self |-> merged,
                   ret  |-> Returned(TRUE, Message(self, "requirements",
                                parsed.service, NULL, EmptyObj)) ]
        ELSE [ self |-> merged,
               ret  |-> Returned(TRUE, Message(self, "which_service",
                            NULL, NULL, EmptyObj)) ]

\* The start taken for a service hint with any intent
processInputIdle_StartsOnAnyIntent(self, text) ==
    LET parsed == Parsed[text]
    IN  IF parsed.service # NULL /\ parsed.intent # NULL
            THEN startBooking(self, parsed.service)
        ELSE [ self |-> self,
               ret  |-> Returned(TRUE, Message(self, "which_service",
                            NULL, NULL, EmptyObj)) ]

\* processInput without a current service, lines 169-194
processInputIdle(self, text) ==
    LET parsed == Parsed[text]
    IN  IF parsed.service # NULL /\ parsed.intent = "book"
            THEN startBooking(self, parsed.service)
        ELSE IF parsed.intent = "requirements" /\ parsed.service # NULL
            THEN [ self |-> self,
                   ret  |-> Returned(TRUE, Message(self, "requirements",
                                parsed.service, NULL, EmptyObj)) ]
        ELSE [ self |-> self,
               ret  |-> Returned(TRUE, Message(self, "which_service",
                            NULL, NULL, EmptyObj)) ]

\* The collecting branch with the merge made only for an utterance that
\* holds no action word
processInputCollecting_MergesWithoutIntent(self, text) ==
    LET parsed  == Parsed[text]
        fields  == SERVICE_INFO[self.currentService]
        merged  == IF parsed.intent # NULL THEN self
                   ELSE [ self EXCEPT
                            !.collectedData = MergeExtracted(@, parsed.data) ]
        missing == MissingFields(fields, merged.collectedData)
        echoed  == CollectedEntries(merged.collectedData)
    IN  IF Len(missing) = 0
        THEN completeBooking(merged)
        ELSE [ self |-> merged,
               ret  |-> [ Returned(TRUE,
                            Message(merged,
                                    IF echoed # EmptyObj THEN "got_it_prompt"
                                                         ELSE "prompt",
                                    NULL, missing[1], echoed))
                          EXCEPT !.nextField = missing[1],
                                 !.collectedData = merged.collectedData ] ]

\* The collecting branch with a booking of another service taken as a start
processInputCollecting_SwitchesService(self, text) ==
    LET parsed  == Parsed[text]
        fields  == SERVICE_INFO[self.currentService]
        merged  == [ self EXCEPT
                       !.collectedData = MergeExtracted(@, parsed.data) ]
        missing == MissingFields(fields, merged.collectedData)
        echoed  == CollectedEntries(merged.collectedData)
    IN  IF parsed.service # NULL /\ parsed.intent = "book"
        THEN startBooking(self, parsed.service)
        ELSE IF Len(missing) = 0
        THEN completeBooking(merged)
        ELSE [ self |-> merged,
               ret  |-> [ Returned(TRUE,
                            Message(merged,
                                    IF echoed # EmptyObj THEN "got_it_prompt"
                                                         ELSE "prompt",
                                    NULL, missing[1], echoed))
                          EXCEPT !.nextField = missing[1],
                                 !.collectedData = merged.collectedData ] ]

\* processInput with a current service, lines 196-240
processInputCollecting(self, text) ==
    LET parsed  == Parsed[text]
        fields  == SERVICE_INFO[self.currentService]
        merged  == [ self EXCEPT
                       !.collectedData = MergeExtracted(@, parsed.data) ]
        missing == MissingFields(fields, merged.collectedData)
        echoed  == CollectedEntries(merged.collectedData)
    IN  IF Len(missing) = 0
        THEN completeBooking(merged)
        ELSE [ self |-> merged,
               ret  |-> [ Returned(TRUE,
                            Message(merged,
                                    IF echoed # EmptyObj THEN "got_it_prompt"
                                                         ELSE "prompt",
                                    NULL, missing[1], echoed))
                          EXCEPT !.nextField = missing[1],
                                 !.collectedData = merged.collectedData ] ]

\* processInput, lines 168-240
processInput(self, text) ==
    IF self.currentService = NULL
    THEN processInputIdle(self, text)
    ELSE processInputCollecting(self, text)

\* getStatus that reports the data of the last completed booking
getStatus_ReportsLast(self) ==
    [ self |-> self,
      ret  |-> [ NoResult EXCEPT !.returned = TRUE,
                                 !.service = self.currentService,
                                 !.data = self.lastBookingData.data,
                                 !.step = self.bookingStep ] ]

\* getStatus, lines 292-298
getStatus(self) ==
    [ self |-> self,
      ret  |-> [ NoResult EXCEPT !.returned = TRUE,
                                 !.service = self.currentService,
                                 !.data = self.collectedData,
                                 !.step = self.bookingStep ] ]

\* cancel that keeps the collected data
cancel_KeepsData(self) ==
    [ self |-> [ self EXCEPT !.currentService = NULL, !.bookingStep = 0 ],
      ret  |-> Returned(TRUE, Message(self, "cancelled", NULL, NULL, EmptyObj)) ]

\* cancel, lines 303-311
cancel(self) ==
    [ self |-> [ self EXCEPT !.collectedData = EmptyObj,
                             !.currentService = NULL,
                             !.bookingStep = 0 ],
      ret  |-> Returned(TRUE, Message(self, "cancelled", NULL, NULL, EmptyObj)) ]

(***************************************************************************)
(* The state machine.                                                      *)
(***************************************************************************)
VARIABLES
    collectedData,    \* this.collectedData
    currentService,   \* this.currentService, NULL when there is none
    bookingStep,      \* this.bookingStep
    language,         \* this.language
    lastBookingData,  \* this.lastBookingData
    op,               \* the method called last
    caller,           \* the conversations the last call was made for
    utterance,        \* its text, when it was processInput
    arg,              \* its argument, when it was startBooking or setLanguage
    result,           \* what it returned
    pre,              \* the object as it was before the last call
    parsed            \* what parseUserSpeech returned in the last call

vars == << collectedData, currentService, bookingStep, language,
           lastBookingData, op, caller, utterance, arg, result, pre, parsed >>

\* The singleton, line 333: the one object every caller imports
voiceBookingService ==
    [ collectedData   |-> collectedData,
      currentService  |-> currentService,
      bookingStep     |-> bookingStep,
      language        |-> language,
      lastBookingData |-> lastBookingData ]

Init ==
    /\ collectedData = NewService.collectedData
    /\ currentService = NewService.currentService
    /\ bookingStep = NewService.bookingStep
    /\ language = NewService.language
    /\ lastBookingData = NewService.lastBookingData
    /\ op = "new"
    /\ caller = {}
    /\ utterance = NULL
    /\ arg = NULL
    /\ result = NoResult
    /\ pre = NewService
    /\ parsed = NoParse

\* The object after a call
Becomes(self) ==
    /\ collectedData' = self.collectedData
    /\ currentService' = self.currentService
    /\ bookingStep' = self.bookingStep
    /\ language' = self.language
    /\ lastBookingData' = self.lastBookingData
    /\ pre' = voiceBookingService

SetLanguage(lang) ==
    /\ Becomes(setLanguage(voiceBookingService, lang))
    /\ op' = "setLanguage"
    /\ arg' = lang
    /\ result' = NoResult
    /\ caller' = {}
    /\ utterance' = NULL
    /\ parsed' = NoParse

StartBooking(sid, serviceType) ==
    LET r == startBooking(voiceBookingService, serviceType)
    IN  /\ Becomes(r.self)
        /\ op' = "startBooking"
        /\ caller' = {sid}
        /\ arg' = serviceType
        /\ result' = r.ret
        /\ utterance' = NULL
        /\ parsed' = NoParse

ProcessInput(sid, text) ==
    LET r == processInput(voiceBookingService, text)
    IN  /\ Becomes(r.self)
        /\ op' = "processInput"
        /\ caller' = {sid}
        /\ utterance' = text
        /\ result' = r.ret
        /\ arg' = NULL
        /\ parsed' = Parsed[text]

Cancel(sid) ==
    LET r == cancel(voiceBookingService)
    IN  /\ Becomes(r.self)
        /\ op' = "cancel"
        /\ caller' = {sid}
        /\ result' = r.ret
        /\ utterance' = NULL
        /\ arg' = NULL
        /\ parsed' = NoParse

GetStatus(sid) ==
    LET r == getStatus(voiceBookingService)
    IN  /\ Becomes(r.self)
        /\ op' = "getStatus"
        /\ caller' = {sid}
        /\ result' = r.ret
        /\ utterance' = NULL
        /\ arg' = NULL
        /\ parsed' = NoParse

Next ==
    \/ \E lang \in LanguageArgs : SetLanguage(lang)
    \/ \E sid \in Sessions, s \in ServiceArgs : StartBooking(sid, s)
    \/ \E sid \in Sessions, text \in Utterances : ProcessInput(sid, text)
    \/ \E sid \in Sessions : Cancel(sid)
    \/ \E sid \in Sessions : GetStatus(sid)

Spec == Init /\ [][Next]_vars

(***************************************************************************)
(* parseUserSpeech on its own: one call on a text of ParseTexts.           *)
(***************************************************************************)
ParseInit ==
    /\ collectedData = NewService.collectedData
    /\ currentService = NewService.currentService
    /\ bookingStep = NewService.bookingStep
    /\ language = NewService.language
    /\ lastBookingData = NewService.lastBookingData
    /\ op = "new"
    /\ caller = {}
    /\ utterance \in ParseTexts
    /\ arg = NULL
    /\ result = NoResult
    /\ pre = NewService
    /\ parsed = NoParse

ParseUserSpeech ==
    /\ op = "new"
    /\ op' = "parseUserSpeech"
    /\ parsed' = parseUserSpeech(utterance)
    /\ UNCHANGED << collectedData, currentService, bookingStep, language,
                    lastBookingData, caller, utterance, arg, result, pre >>

ParseNext == ParseUserSpeech

ParseSpec == ParseInit /\ [][ParseNext]_vars

\* One call of parseUserSpeech on a text of texts
ParseStart(texts) ==
    /\ collectedData = NewService.collectedData
    /\ currentService = NewService.currentService
    /\ bookingStep = NewService.bookingStep
    /\ language = NewService.language
    /\ lastBookingData = NewService.lastBookingData
    /\ op = "new"
    /\ caller = {}
    /\ utterance \in texts
    /\ arg = NULL
    /\ result = NoResult
    /\ pre = NewService
    /\ parsed = NoParse

PhoneInit == ParseStart(PhoneTexts)

PhoneSpec == PhoneInit /\ [][ParseNext]_vars

IdInit == ParseStart(IdTexts)

IdSpec == IdInit /\ [][ParseNext]_vars


(***************************************************************************)
(* The properties.                                                         *)
(***************************************************************************)
\* The last call was a processInput made while a service was current
CollectingTurn == op = "processInput" /\ pre.currentService # NULL

\* The last call was a processInput made while no service was current
IdleTurn == op = "processInput" /\ pre.currentService = NULL

\* What the utterance of the last processInput held
Extracted == Parsed[utterance].data

\* C1: first-writer-wins.  A processInput made while a service is current
\* leaves the value that collectedData already holds for a required field
\* as it is (in collectedData, or in the record the turn returns when it
\* completes the booking).
C1_FirstWriterWins ==
    CollectingTurn =>
        \A f \in DOMAIN pre.collectedData \cap RequiredFields(pre.currentService) :
            LET now == IF result.complete THEN result.data ELSE collectedData
            IN  f \in DOMAIN now /\ now[f] = pre.collectedData[f]

\* C2: while a service is current, collectedData holds only fields that the
\* service requires.
C2_CollectedWithinRequired ==
    currentService # NULL =>
        DOMAIN collectedData \subseteq RequiredFields(currentService)

\* C3: whichever service has just been started, one utterance that holds a
\* value for every field completes the booking in that turn.
C3_FullUtteranceCompletes ==
    (CollectingTurn /\ utterance = UttFull /\ pre.collectedData = EmptyObj)
        => result.complete

\* The booking a conversation is in: the code keeps none per conversation,
\* every caller reaches the one object of line 333.
SessionOf(sid) ==
    [ activeService |-> voiceBookingService.currentService,
      collected     |-> voiceBookingService.collectedData ]

\* C4: a call made for one conversation leaves the active service and the
\* collected fields of every other conversation as they were.
C4_SessionsIndependent ==
    [][ \A sid \in Sessions :
            sid \notin caller' => SessionOf(sid)' = SessionOf(sid) ]_vars

\* C5: the utterance "cancel", handled while a service is current, returns
\* the engine to no service and no collected data, and is answered by the
\* cancelled acknowledgment.
C5_CancelUtterance ==
    (CollectingTurn /\ utterance = UttCancel) =>
        /\ currentService = NULL
        /\ collectedData = EmptyObj
        /\ result.message.template = "cancelled"

\* C6: the utterance that starts good_conduct and names John Doe and the ID
\* 12345678 leaves exactly these three fields collected and is answered by
\* the prompt for phone.
C6_StartMergesSameTurn ==
    (IdleTurn /\ utterance = UttBookJohn) =>
        /\ currentService = "good_conduct"
        /\ collectedData = [ first_name |-> "John", last_name |-> "Doe",
                             id_number |-> "12345678" ]
        /\ result.nextField = "phone"

\* C7: the data of every record returned on completion has exactly the
\* required fields of the service that was current, each a non-empty string.
C7_RecordHasExactlyRequired ==
    result.complete =>
        /\ pre.currentService \in Services
        /\ DOMAIN result.data = RequiredFields(pre.currentService)
        /\ \A f \in DOMAIN result.data : result.data[f] # ""

C7_Witness ==
    /\ result.complete
    /\ pre.currentService = "good_conduct"
    /\ DOMAIN result.data = RequiredFields("good_conduct")

\* C8: a processInput made while a service is current and that does not
\* complete the booking prompts for the first field, in the order of the
\* service's fields, that collectedData holds no value for; one that
\* completes it found a value for every field.
C8_PromptsFirstMissing ==
    CollectingTurn =>
        LET fields == SERVICE_INFO[pre.currentService]
        IN  IF result.complete
            THEN \A i \in 1..Len(fields) : Truthy(result.data, fields[i])
            ELSE \E i \in 1..Len(fields) :
                    /\ ~Truthy(collectedData, fields[i])
                    /\ \A j \in 1..(i - 1) : Truthy(collectedData, fields[j])
                    /\ result.nextField = fields[i]
                    /\ result.message.field = fields[i]

C8_Witness ==
    /\ CollectingTurn
    /\ currentService = "passport"
    /\ DOMAIN collectedData = {"first_name"}
    /\ result.nextField = "last_name"

\* C9: after cancel() there is no current service, no collected data and
\* the step is 0; cancel() called when that is already so changes nothing
\* of the object.
C9_CancelResets ==
    op = "cancel" =>
        /\ currentService = NULL
        /\ collectedData = EmptyObj
        /\ bookingStep = 0
        /\ (cancel(voiceBookingService).self = voiceBookingService)
        /\ ((pre.currentService = NULL /\ pre.collectedData = EmptyObj
                /\ pre.bookingStep = 0) => voiceBookingService = pre)

C9_Witness ==
    /\ op = "cancel"
    /\ pre.currentService # NULL
    /\ pre.collectedData # EmptyObj

\* C10: the turn that completes a booking returns every required field with
\* the value held before the turn or found in the turn's utterance (the
\* fields first found in this turn included), and leaves no current service
\* and no collected data; a booking started by a later utterance starts
\* with no collected data.
C10_CompletionReturnsAndResets ==
    /\ result.complete =>
        /\ currentService = NULL
        /\ collectedData = EmptyObj
        /\ \A f \in RequiredFields(pre.currentService) :
            /\ f \in DOMAIN result.data
            /\ f \in DOMAIN pre.collectedData \cup DOMAIN Extracted
            /\ f \notin DOMAIN pre.collectedData => result.data[f] = Extracted[f]
            /\ f \notin DOMAIN Extracted => result.data[f] = pre.collectedData[f]
    /\ (IdleTurn /\ currentService # NULL) => collectedData = EmptyObj

C10_Witness ==
    /\ result.complete
    /\ pre.collectedData # EmptyObj
    /\ \E f \in DOMAIN result.data : f \notin DOMAIN pre.collectedData
    /\ \E f \in DOMAIN result.data : f \notin DOMAIN Extracted

\* C11: whenever there is no current service, collectedData is empty and
\* the step is 0.
C11_IdleIsEmpty ==
    currentService = NULL => collectedData = EmptyObj /\ bookingStep = 0

C11_Witness ==
    /\ currentService = NULL
    /\ op \in {"cancel", "processInput"}
    /\ pre.currentService # NULL
    /\ pre.collectedData # EmptyObj

\* The service tests of parseUserSpeech, in the order of the chain
ServiceOrder == << "passport", "national_id", "driving_license", "good_conduct" >>

ServiceKeywords ==
    [ passport        |-> { "passport", "pasipoti" },
      national_id     |-> { "national id", "kitambulisho", "id card" },
      driving_license |-> { "driving", "license", "leseni" },
      good_conduct    |-> { "good conduct", "police", "mwenendo" } ]

\* The places in ServiceOrder of the services that the text has a keyword of
MatchingServices(text) ==
    { n \in 1..Len(ServiceOrder) :
        \E kw \in ServiceKeywords[ServiceOrder[n]] :
            includes(toLowerCase(text), kw) }

\* C12: the service parseUserSpeech returns is the first, in the order
\* passport, national_id, driving_license, good_conduct, that the utterance
\* has a keyword of (none when it has no keyword); "I need id or passport"
\* gives passport.
C12_FirstServiceInOrder ==
    op = "parseUserSpeech" =>
        /\ parsed.service =
                IF MatchingServices(utterance) = {} THEN NULL
                ELSE ServiceOrder[Min(MatchingServices(utterance))]
        /\ utterance = UttIdOrPassport => parsed.service = "passport"

C12_Witness ==
    /\ op = "parseUserSpeech"
    /\ MatchingServices(utterance) = {2, 4}
    /\ parsed.service = "national_id"

\* C13: every processInput returns a result that reports success and holds
\* a message, in the language of the engine.
C13_AlwaysAResponse ==
    op = "processInput" =>
        /\ result.returned
        /\ result.success
        /\ result.message.template \in
                { "starting", "requirements", "which_service", "prompt",
                  "got_it_prompt", "summary" }
        /\ result.message.lang \in {"en", "sw"}

C13_Witness ==
    /\ CollectingTurn
    /\ utterance = "Apply for a birth certificate"
    /\ result.success
    /\ result.message.template = "got_it_prompt"

\* C14 as claimed: the engine holds no data of a completed booking.
C14_NoReferenceKept == lastBookingData = NewService.lastBookingData

\* C14 as amended: the turn that completes a booking leaves its data out of
\* collectedData and in lastBookingData; no other call changes
\* lastBookingData.
C14_KeptInLastBookingData ==
    [][ IF result'.complete
        THEN /\ collectedData' = EmptyObj
             /\ lastBookingData' = [ set |-> TRUE, data |-> result'.data ]
        ELSE lastBookingData' = lastBookingData ]_vars

C14_Witness ==
    /\ op = "startBooking"
    /\ currentService # NULL
    /\ lastBookingData.set
    /\ lastBookingData.data # EmptyObj

\* C15: a record is returned only by a processInput made while a service
\* was current, and that call leaves no current service; a processInput
\* made after a completion, while no service is current, returns none.
C15_OneRecordPerBooking ==
    /\ result.complete => (CollectingTurn /\ currentService = NULL)
    /\ (IdleTurn /\ pre.lastBookingData.set) => ~result.complete

C15_Witness ==
    /\ IdleTurn
    /\ pre.lastBookingData.set
    /\ utterance = UttFull
    /\ ~result.complete

\* C16: getStatus leaves the object as it was and returns the current
\* service, the collected data and the step.
C16_GetStatusReadOnly ==
    op = "getStatus" =>
        /\ voiceBookingService = pre
        /\ result.service = currentService
        /\ result.data = collectedData
        /\ result.step = bookingStep

C16_Witness ==
    /\ op = "getStatus"
    /\ currentService # NULL
    /\ collectedData # EmptyObj
    /\ lastBookingData.set

\* C17: startBooking of a service of the catalog makes it the current
\* service with no collected data and step 0; startBooking of any other
\* service reports a failure and leaves the three as they were.
C17_StartBooking ==
    op = "startBooking" =>
        IF arg \in {"passport", "national_id", "driving_license", "good_conduct"}
        THEN /\ result.success
             /\ currentService = arg
             /\ collectedData = EmptyObj
             /\ bookingStep = 0
        ELSE /\ ~result.success
             /\ currentService = pre.currentService
             /\ collectedData = pre.collectedData
             /\ bookingStep = pre.bookingStep

C17_Witness ==
    /\ op = "startBooking"
    /\ arg = "birth_certificate"
    /\ ~result.success
    /\ currentService # NULL
    /\ collectedData # EmptyObj

\* C18: the service parseUserSpeech finds in an utterance is none or a
\* service of the catalog, and no processInput returns the unknown-service
\* failure of startBooking.
C18_NoUnknownServiceFailure ==
    op = "processInput" =>
        /\ parsed.service \in Services \cup {NULL}
        /\ result.message.template # "unknown_service"

C18_Witness ==
    /\ IdleTurn
    /\ parsed.service = "good_conduct"
    /\ result.message.template = "starting"

\* C19: a processInput made while no service is current and answered by the
\* requirements or by the which-service prompt leaves the object as it
\* was: no current service, no collected data, step 0.
C19_IdleTurnNoChange ==
    (IdleTurn /\ result.message.template \in {"requirements", "which_service"})
        => /\ voiceBookingService = pre
           /\ currentService = NULL
           /\ collectedData = EmptyObj
           /\ bookingStep = 0

C19_Witness ==
    /\ IdleTurn
    /\ utterance = UttJohn
    /\ parsed.data # EmptyObj
    /\ result.message.template = "which_service"

CollectedAfter == IF result.complete THEN result.data ELSE collectedData

\* C21: a processInput made while a service is current collects every
\* required field its utterance holds, whatever the intent and the service
\* found in the utterance; a field that had no value before has the
\* extracted value after.
C21_MergeWhateverIntent ==
    CollectingTurn =>
        \A k \in DOMAIN parsed.data \cap RequiredFields(pre.currentService) :
            /\ Truthy(CollectedAfter, k)
            /\ ~Truthy(pre.collectedData, k) => CollectedAfter[k] = parsed.data[k]

C21_Witness ==
    /\ CollectingTurn
    /\ utterance = UttBookJohn
    /\ pre.currentService = "passport"
    /\ pre.collectedData = EmptyObj
    /\ parsed.intent = "book"
    /\ parsed.service = "good_conduct"
    /\ collectedData = Parsed[UttBookJohn].data

\* C22 as claimed: a processInput made while a service is current, and
\* that leaves it current, has raised the step by one.
C22_StepIncrements ==
    (CollectingTurn /\ currentService # NULL)
        => bookingStep = pre.bookingStep + 1

\* C26: collectedData never holds a date_of_birth, a processInput made
\* while passport or national_id is current returns no record, and the
\* only call after which these services are no longer current and none is
\* current is cancel.
C26_BirthDateNeverCollected ==
    /\ "date_of_birth" \notin DOMAIN collectedData
    /\ pre.currentService \in {"passport", "national_id"} =>
            /\ ~result.complete
            /\ currentService = NULL => op = "cancel"

C26_Witness ==
    /\ CollectingTurn
    /\ pre.currentService = "national_id"
    /\ utterance = UttFull
    /\ MissingFields(SERVICE_INFO["national_id"], collectedData)
            = << "date_of_birth" >>
    /\ currentService = "national_id"

\* C27: in every state, a current service has a required field that
\* collectedData holds no value for.
C27_NeverCompleteAtRest ==
    currentService # NULL =>
        MissingFields(SERVICE_INFO[currentService], collectedData) # << >>

C27_Witness ==
    /\ CollectingTurn
    /\ currentService = "good_conduct"
    /\ MissingFields(SERVICE_INFO["good_conduct"], collectedData) = << "email" >>

\* C28: a processInput made while a service is current leaves that service
\* current or, when it returns the record, none.
C28_NoSwitchWhileCollecting ==
    CollectingTurn =>
        /\ currentService \in {pre.currentService, NULL}
        /\ currentService = NULL <=> result.complete

C28_Witness ==
    /\ CollectingTurn
    /\ utterance = UttNeedToBook
    /\ pre.currentService = "driving_license"
    /\ parsed.service = "passport"
    /\ currentService = "driving_license"

\* The intent tests of parseUserSpeech, in the order of the chain
IntentOrder == << "book", "check_status", "requirements" >>

IntentKeywords ==
    [ book         |-> { "book", "apply", "weka", "omba" },
      check_status |-> { "check", "status", "hali" },
      requirements |-> { "require", "need", "hitaji" } ]

\* The places in IntentOrder of the intents that the text has a keyword of
MatchingIntents(text) ==
    { n \in 1..Len(IntentOrder) :
        \E kw \in IntentKeywords[IntentOrder[n]] :
            includes(toLowerCase(text), kw) }

MatchingIntentsOf == [ u \in Utterances |-> MatchingIntents(u) ]

\* C29: the intent of an utterance is the first, in the order book,
\* check_status, requirements, that it has a keyword of; with no service
\* current, an utterance with a service keyword, a book keyword and a
\* requirements keyword starts the booking.
C29_IntentPrecedence ==
    op = "processInput" =>
        /\ parsed.intent =
                IF MatchingIntentsOf[utterance] = {} THEN NULL
                ELSE IntentOrder[Min(MatchingIntentsOf[utterance])]
        /\ (/\ pre.currentService = NULL
            /\ {1, 3} \subseteq MatchingIntentsOf[utterance]
            /\ parsed.service # NULL)
                => /\ currentService = parsed.service
                   /\ result.message.template = "starting"

C29_Witness ==
    /\ IdleTurn
    /\ utterance = UttNeedToBook
    /\ MatchingIntentsOf[utterance] = {1, 3}
    /\ currentService = "passport"

\* C30: the language is en or sw; setLanguage stores sw when given sw and
\* en when given anything else, and no other call changes the language.
C30_LanguageEnOrSw ==
    /\ language \in {"en", "sw"}
    /\ op = "setLanguage" => language = (IF arg = "sw" THEN "sw" ELSE "en")
    /\ op \in {"startBooking", "processInput", "cancel", "getStatus"}
            => language = pre.language

C30_Witness ==
    /\ op = "setLanguage"
    /\ arg = "fr"
    /\ pre.language = "sw"
    /\ language = "en"

\* What parseUserSpeech returns for each text of ParseTexts, and the
\* services and intents each has a keyword of
ParsedText == [ t \in ParseTexts |-> parseUserSpeech(t) ]

MatchingServicesOf == [ t \in ParseTexts |-> MatchingServices(t) ]

\* C23: an utterance with no action keyword has no intent, with or without
\* a service keyword; and two utterances with keywords of the same services
\* have the same service, whatever their intents.
C23_IntentNoneServiceIndependent ==
    op = "parseUserSpeech" =>
        /\ MatchingIntents(utterance) = {} => parsed.intent = NULL
        /\ \A t \in ParseTexts :
                MatchingServicesOf[t] = MatchingServicesOf[utterance]
                    => ParsedText[t].service = parsed.service

C23_Witness ==
    /\ op = "parseUserSpeech"
    /\ MatchingIntents(utterance) = {}
    /\ parsed.intent = NULL
    /\ parsed.service = "driving_license"

\* [17]\d{8} preceded by a 0: the form of a phone in collectedData
IsLocalPhone(v) ==
    /\ Len(v) = PhoneTail + 2
    /\ Char(v, 1) = "0"
    /\ Char(v, 2) \in {"1", "7"}
    /\ \A k \in 3..Len(v) : Char(v, k) \in DigitChars

\* C24: a subscriber number written with the prefix 0, +254, 254 or none
\* is extracted as 0 followed by its nine digits; every extracted phone is
\* a 0, then 1 or 7, then eight digits.
C24_PhoneNormalised ==
    op = "parseUserSpeech" =>
        /\ "phone" \in DOMAIN parsed.data => IsLocalPhone(parsed.data["phone"])
        /\ \A l \in PhoneLeads, p \in PhonePrefixes, n \in Subscribers,
              e \in PhoneEnds :
                utterance = l \o p \o n \o e
                    => /\ "phone" \in DOMAIN parsed.data
                       /\ parsed.data["phone"] = "0" \o n

C24_Witness ==
    /\ op = "parseUserSpeech"
    /\ utterance = "call me on +254112345678 please"
    /\ "phone" \in DOMAIN parsed.data
    /\ parsed.data["phone"] = "0112345678"

\* The starts of the runs of IdDigits digits of text that no character of
\* the class C touches
StandaloneRuns(text, C) ==
    { i \in 1..(Len(text) - IdDigits + 1) :
        /\ \A k \in i..(i + IdDigits - 1) : Char(text, k) \in DigitChars
        /\ i > 1 => Char(text, i - 1) \notin C
        /\ i + IdDigits <= Len(text) => Char(text, i + IdDigits) \notin C }

\* The id_number of the last parseUserSpeech is the first run of runs, and
\* there is none when runs is empty
IdIsFirstOf(runs) ==
    IF runs = {} THEN "id_number" \notin DOMAIN parsed.data
    ELSE /\ "id_number" \in DOMAIN parsed.data
         /\ parsed.data["id_number"]
                = SubSeq(utterance, Min(runs), Min(runs) + IdDigits - 1)

\* C25 as claimed: the id_number is the first run of exactly 8 digits whose
\* neighbours are not digits, and there is none without such a run.
C25_DigitNeighbours ==
    op = "parseUserSpeech" => IdIsFirstOf(StandaloneRuns(utterance, DigitChars))

\* C25 as amended: the id_number is the first run of exactly 8 digits whose
\* neighbours are not word characters (letters, digits, underscore), and
\* there is none without such a run; a run of 7 or of 9 digits gives none.
C25_WordNeighbours ==
    op = "parseUserSpeech" => IdIsFirstOf(StandaloneRuns(utterance, WordChars))

C25_Witness ==
    /\ op = "parseUserSpeech"
    /\ utterance = "id12345678 87654321"
    /\ "id_number" \in DOMAIN parsed.data
    /\ parsed.data["id_number"] = "87654321"

=============================================================================
